---------------------------- MODULE Spec2Model ----------------------------
(***************************************************************************)
(* Model of iKeySort's KeyBinSort for Vec<T> (src/src/key_sort.rs).        *)
(*                                                                         *)
(* One call is modelled from its entry to its return.  The element type    *)
(* is the Point of the crate's tests: x is the key, y the payload.  The    *)
(* vector and the bin table are TLA+ sequences; the code's 0-based index i *)
(* addresses element i + 1.  The payload of an input element is its        *)
(* position in the input, so every element can be followed through the     *)
(* permutation; the distributor itself reads nothing but the key.  Keys    *)
(* are small naturals, so max_key - min_key and every offset are computed  *)
(* without wrapping.                                                       *)
(*                                                                         *)
(* pc is the position in the code:                                         *)
(*   "call"     entry of sort_by_bins                        (line 45)     *)
(*   "count"    before the counting pass                     (line 78)     *)
(*   "prefix"   head of the prefix-sum / local-pass loop     (line 84)     *)
(*   "outer"    head of the outer cycle-chase loop           (line 102)    *)
(*   "inner"    head of the loop over the current bin        (line 113)    *)
(*   "chase"    head of the chase loop                       (line 117)    *)
(*   "returned" sort_by_bins has returned its bin table      (line 133)    *)
(*   "sorted"   the caller has sorted every bin              (line 149/164)*)
(*   "panic"    a checked index was out of bounds                          *)
(*   "ub"       an unchecked index was out of bounds                       *)
(***************************************************************************)
EXTENDS Integers, Sequences, FiniteSets, Bags, TLC

\* Longest input vector.
MaxLen == 5
\* Keys are drawn from 0 .. MaxKeyValue.
MaxKeyValue == 3
\* The hard ceiling on the number of bins (key_sort.rs line 61).
BinCeiling == 8192

VARIABLES
    pc,              \* position in the code
    input,           \* the vector as it was when the call began
    self,            \* the vector being sorted in place
    layout,          \* BinLayout { min_key, power }
    bins,            \* Vec<Bin>
    offset,          \* running total of the prefix-sum pass
    bin_index,       \* loop variable of the prefix-sum loop and of the outer chase loop
    end,             \* end of the current bin's region
    iter_index,      \* slot of the current bin being resolved
    this_value,      \* the carried value
    next_bin_index,  \* bin of the carried value
    caller,          \* which entry point (or test) the call belongs to
    compare          \* the comparator the caller supplied

vars == <<pc, input, self, layout, bins, offset, bin_index, end, iter_index,
          this_value, next_bin_index, caller, compare>>

locals == <<end, iter_index, this_value, next_bin_index>>

--------------------------------------------------------------------------
(* Helpers of the model: 0-based access to sequences. *)

At(s, i) == s[i + 1]

Put(s, i, v) == [s EXCEPT ![i + 1] = v]

Min2(a, b) == IF a <= b THEN a ELSE b

Max2(a, b) == IF a >= b THEN a ELSE b

RECURSIVE Pow2(_)
Pow2(n) == IF n = 0 THEN 1 ELSE 2 * Pow2(n - 1)

--------------------------------------------------------------------------
(* Point, BinKey for Point, BinLayout. *)

Point(x, y) == [x |-> x, y |-> y]

Key(p) == p.x

\* value.offset(min_key) >> power; every caller passes value >= min_key.
LayoutIndex(l, value) == (value - l.min_key) \div Pow2(l.power)

BinOf(p, l) == LayoutIndex(l, p.x)

\* usize::BITS - value.leading_zeros(): the bit length of value.
RECURSIVE log2(_)
log2(value) == IF value = 0 THEN 0 ELSE 1 + log2(value \div 2)

--------------------------------------------------------------------------
(* Bin. *)

Bin(o, c, i) == [offset |-> o, count |-> c, index |-> i]

\* Bin::index: the absolute next free slot.
Bin_index(b) == b.offset + b.index

\* Mutant of Bin_end: the region ends one slot early.
Bin_end_short(b) == b.offset + b.count - 1

\* Bin::end.
Bin_end(b) == b.offset + b.count

\* Bin::index_and_inc, the returned slot.
IndexAndIncSlot(b) == b.offset + b.index

\* Mutant of IndexAndIncBin: the cursor is not advanced.
IndexAndIncBinStuck(b) == b

\* Bin::index_and_inc, the bin it leaves behind.
IndexAndIncBin(b) == [b EXCEPT !.index = b.index + 1]

--------------------------------------------------------------------------
(* sort_by_bins: the scan for the key range and the layout. *)

RECURSIVE MinKeyFrom(_, _, _)
MinKeyFrom(s, i, m) ==
    IF i > Len(s) THEN m ELSE MinKeyFrom(s, i + 1, Min2(Key(s[i]), m))

RECURSIVE MaxKeyFrom(_, _, _)
MaxKeyFrom(s, i, m) ==
    IF i > Len(s) THEN m ELSE MaxKeyFrom(s, i + 1, Max2(Key(s[i]), m))

min_key_of(s) == MinKeyFrom(s, 1, Key(s[1]))

max_key_of(s) == MaxKeyFrom(s, 1, Key(s[1]))

delta_of(s) == max_key_of(s) - min_key_of(s)

max_possible_bin_count(s) == Min2(Min2(delta_of(s), Len(s) \div 2), BinCeiling)

\* The skip test of line 62.
SkipsBinning(s) == max_possible_bin_count(s) <= 1

scale_of(s) == delta_of(s) \div max_possible_bin_count(s)

LayoutOf(s) == [min_key |-> min_key_of(s), power |-> log2(scale_of(s))]

\* Mutant of bin_count_of: the table has no entry for the bin of max_key.
bin_count_short(s) == LayoutIndex(LayoutOf(s), max_key_of(s))

\* Line 74.
bin_count_of(s) == LayoutIndex(LayoutOf(s), max_key_of(s)) + 1

NoLayout == [min_key |-> 0, power |-> 0]

NoValue == Point(0, 0)

--------------------------------------------------------------------------
(* The inputs. *)

\* The vector of tests::test_0, by its keys.
Test0Keys == <<13, 1, 10, 4, 8, 7, 8, 10, 14>>

\* A vector as tests::random_points may draw it: its middle bin stays empty.
SparseKeys == <<4, 0, 0, 0, 0, 0>>

\* The points with the given keys; the payload is the position.
PointsOf(k) == [i \in 1..Len(k) |-> Point(k[i], i - 1)]

\* Every vector of at most MaxLen keys from 0 .. MaxKeyValue, and the two above.
Inputs ==
    UNION { { PointsOf(k) : k \in [1..n -> 0..MaxKeyValue] } : n \in 0..MaxLen }
        \cup {PointsOf(Test0Keys), PointsOf(SparseKeys)}

Init ==
    /\ input \in Inputs
    /\ self = input
    /\ pc = "call"
    /\ layout = NoLayout
    /\ bins = <<>>
    /\ offset = 0
    /\ bin_index = 0
    /\ end = 0
    /\ iter_index = 0
    /\ this_value = NoValue
    /\ next_bin_index = 0
    /\ caller = "sort_by_bins"
    /\ compare = "none"

--------------------------------------------------------------------------
(* sort_by_bins, lines 46-76. *)

\* Lines 46-48.
ReturnEmpty ==
    /\ pc = "call"
    /\ self = <<>>
    /\ bins' = <<>>
    /\ pc' = "returned"
    /\ UNCHANGED <<input, self, layout, offset, bin_index, locals, caller, compare>>

\* Mutant of SingleBin: the count is the halved length of line 61.
SingleBinHalved(s) == <<Bin(0, Len(s) \div 2, 0)>>

\* Lines 63-67: the whole vector as one bin.
SingleBin(s) == <<Bin(0, Len(s), 0)>>

\* Lines 50-68.
ReturnSingleBin ==
    /\ pc = "call"
    /\ self # <<>>
    /\ SkipsBinning(self)
    /\ bins' = SingleBin(self)
    /\ pc' = "returned"
    /\ UNCHANGED <<input, self, layout, offset, bin_index, locals, caller, compare>>

\* Lines 50-76.
BuildLayout ==
    /\ pc = "call"
    /\ self # <<>>
    /\ ~SkipsBinning(self)
    /\ layout' = LayoutOf(self)
    /\ bins' = [b \in 1..bin_count_of(self) |-> Bin(0, 0, 0)]
    /\ pc' = "count"
    /\ UNCHANGED <<input, self, offset, bin_index, locals, caller, compare>>

--------------------------------------------------------------------------
(* The counting pass, lines 78-81. *)

RECURSIVE CountFrom(_, _, _, _)
CountFrom(s, i, l, t) ==
    IF i > Len(s) THEN t
    ELSE CountFrom(s, i + 1, l,
                   [t EXCEPT ![BinOf(s[i], l) + 1].count = @ + 1])

\* bins[index] is checked indexing: an index outside the table panics.
CountPass ==
    /\ pc = "count"
    /\ IF \E i \in 1..Len(self) : BinOf(self[i], layout) >= Len(bins)
       THEN /\ pc' = "panic"
            /\ UNCHANGED <<bins, offset, bin_index>>
       ELSE /\ bins' = CountFrom(self, 1, layout, bins)
            /\ offset' = 0
            /\ bin_index' = 0
            /\ pc' = "prefix"
    /\ UNCHANGED <<input, self, layout, locals, caller, compare>>

--------------------------------------------------------------------------
(* The prefix-sum loop with its local pass, lines 83-99. *)

\* Vec::swap(i, j).
Swap(s, i, j) == [s EXCEPT ![i + 1] = s[j + 1], ![j + 1] = s[i + 1]]

\* Lines 91-98: elements of bin b found in s[i .. hi) are swapped down to j.
RECURSIVE LocalPass(_, _, _, _, _, _)
LocalPass(s, i, j, hi, b, l) ==
    IF i >= hi THEN s
    ELSE IF BinOf(At(s, i), l) = b
         THEN LocalPass(Swap(s, i, j), i + 1, j + 1, hi, b, l)
         ELSE LocalPass(s, i + 1, j, hi, b, l)

\* Line 84, the iterator is exhausted; line 101.
PrefixDone ==
    /\ pc = "prefix"
    /\ bin_index = Len(bins)
    /\ bin_index' = 0
    /\ pc' = "outer"
    /\ UNCHANGED <<input, self, layout, bins, offset, locals, caller, compare>>

\* Lines 85-87: an empty bin is passed over, its offset is not assigned.
PrefixSkipEmpty ==
    /\ pc = "prefix"
    /\ bin_index < Len(bins)
    /\ At(bins, bin_index).count = 0
    /\ bin_index' = bin_index + 1
    /\ UNCHANGED <<pc, input, self, layout, bins, offset, locals, caller, compare>>

\* Lines 88-98.  get_unchecked(i) is unchecked: a region that runs past the
\* end of the vector is undefined behaviour.
PrefixLocalPass ==
    /\ pc = "prefix"
    /\ bin_index < Len(bins)
    /\ At(bins, bin_index).count # 0
    /\ LET bin == At(bins, bin_index)
           hi == offset + bin.count
       IN IF hi > Len(self)
          THEN /\ pc' = "ub"
               /\ UNCHANGED <<self, bins, offset, bin_index>>
          ELSE /\ bins' = Put(bins, bin_index, [bin EXCEPT !.offset = offset])
               /\ offset' = hi
               /\ self' = LocalPass(self, offset, offset, hi, bin_index, layout)
               /\ bin_index' = bin_index + 1
               /\ pc' = "prefix"
    /\ UNCHANGED <<input, layout, locals, caller, compare>>

--------------------------------------------------------------------------
(* The cycle-chase pass, lines 101-131. *)

\* Line 102, the loop ends; line 133.
OuterExit ==
    /\ pc = "outer"
    /\ ~(bin_index < Len(bins) - 1)
    /\ pc' = "returned"
    /\ UNCHANGED <<input, self, layout, bins, offset, bin_index, locals, caller, compare>>

\* Lines 103-107.
OuterSkip ==
    /\ pc = "outer"
    /\ bin_index < Len(bins) - 1
    /\ At(bins, bin_index).index >= At(bins, bin_index).count
    /\ bin_index' = bin_index + 1
    /\ UNCHANGED <<pc, input, self, layout, bins, offset, locals, caller, compare>>

\* Lines 103-111.
OuterEnter ==
    /\ pc = "outer"
    /\ bin_index < Len(bins) - 1
    /\ At(bins, bin_index).index < At(bins, bin_index).count
    /\ end' = Bin_end(At(bins, bin_index))
    /\ iter_index' = Bin_index(At(bins, bin_index))
    /\ pc' = "inner"
    /\ UNCHANGED <<input, self, layout, bins, offset, bin_index, this_value,
                   next_bin_index, caller, compare>>

\* Lines 113-115.  get_unchecked(iter_index) is unchecked.
InnerLoad ==
    /\ pc = "inner"
    /\ iter_index < end
    /\ IF iter_index >= Len(self)
       THEN /\ pc' = "ub"
            /\ UNCHANGED <<this_value, next_bin_index>>
       ELSE /\ this_value' = At(self, iter_index)
            /\ next_bin_index' = BinOf(At(self, iter_index), layout)
            /\ pc' = "chase"
    /\ UNCHANGED <<input, self, layout, bins, offset, bin_index, end, iter_index,
                   caller, compare>>

\* Line 113, the loop ends; line 130.
InnerDone ==
    /\ pc = "inner"
    /\ ~(iter_index < end)
    /\ bin_index' = bin_index + 1
    /\ pc' = "outer"
    /\ UNCHANGED <<input, self, layout, bins, offset, locals, caller, compare>>

\* Lines 117-123, one turn of the chase loop.  Both get_unchecked_mut calls
\* are unchecked.
ChaseSwap ==
    /\ pc = "chase"
    /\ next_bin_index # bin_index
    /\ IF next_bin_index >= Len(bins)
       THEN /\ pc' = "ub"
            /\ UNCHANGED <<self, bins, this_value, next_bin_index>>
       ELSE LET next_value_index == IndexAndIncSlot(At(bins, next_bin_index))
            IN IF next_value_index >= Len(self)
               THEN /\ pc' = "ub"
                    /\ UNCHANGED <<self, bins, this_value, next_bin_index>>
               ELSE /\ bins' = Put(bins, next_bin_index,
                                   IndexAndIncBin(At(bins, next_bin_index)))
                    /\ self' = Put(self, next_value_index, this_value)
                    /\ this_value' = At(self, next_value_index)
                    /\ next_bin_index' = BinOf(At(self, next_value_index), layout)
                    /\ pc' = "chase"
    /\ UNCHANGED <<input, layout, offset, bin_index, end, iter_index, caller, compare>>

\* Mutant of StoreCarried: the slot keeps the clone taken at line 114.
StoreCarriedDropped(s, i, v) == s

\* Line 126: the carried value overwrites the slot it was cloned from.
StoreCarried(s, i, v) == Put(s, i, v)

\* Lines 117, 126-127: the carried value belongs to the current bin.
ChaseStore ==
    /\ pc = "chase"
    /\ next_bin_index = bin_index
    /\ IF iter_index >= Len(self) \/ bin_index >= Len(bins)
       THEN /\ pc' = "ub"
            /\ UNCHANGED <<self, bins, iter_index>>
       ELSE /\ self' = StoreCarried(self, iter_index, this_value)
            /\ iter_index' = IndexAndIncSlot(At(bins, bin_index))
            /\ bins' = Put(bins, bin_index, IndexAndIncBin(At(bins, bin_index)))
            /\ pc' = "inner"
    /\ UNCHANGED <<input, layout, offset, bin_index, end, this_value, next_bin_index,
                   caller, compare>>

--------------------------------------------------------------------------
(* The comparators a caller supplies, and the standard library's sorts. *)

\* Point::cmp of the tests: by key, then by payload.
PointCmp(a, b) ==
    IF a.x = b.x /\ a.y = b.y THEN 0
    ELSE IF a.x < b.x \/ (a.x = b.x /\ a.y < b.y) THEN -1
    ELSE 1

\* A comparator that looks at the key only.
KeyCmp(a, b) == IF a.x = b.x THEN 0 ELSE IF a.x < b.x THEN -1 ELSE 1

Comparators == {"cmp", "key"}

Compare(c, a, b) == IF c = "cmp" THEN PointCmp(a, b) ELSE KeyCmp(a, b)

InsertAt(t, p, e) == SubSeq(t, 1, p) \o <<e>> \o SubSeq(t, p + 1, Len(t))

\* The place of e in the sorted t that keeps e behind every element equal to it.
StablePlace(t, e, c) ==
    IF \E i \in 1..Len(t) : Compare(c, t[i], e) > 0
    THEN (CHOOSE i \in 1..Len(t) :
              /\ Compare(c, t[i], e) > 0
              /\ \A k \in 1..(i - 1) : Compare(c, t[k], e) <= 0) - 1
    ELSE Len(t)

\* slice::sort_by: a stable comparison sort (insertion sort, left to right).
RECURSIVE SortByFrom(_, _, _, _)
SortByFrom(s, i, t, c) ==
    IF i > Len(s) THEN t
    ELSE SortByFrom(s, i + 1, InsertAt(t, StablePlace(t, s[i], c), s[i]), c)

SortBy(s, c) == SortByFrom(s, 1, <<>>, c)

\* The places of e in the sorted t that leave it sorted.
SortedPlaces(t, e, c) ==
    { p \in 0..Len(t) :
        /\ \A k \in 1..p : Compare(c, t[k], e) <= 0
        /\ \A k \in (p + 1)..Len(t) : Compare(c, e, t[k]) <= 0 }

\* slice::sort_unstable_by: every sorted arrangement is a possible result.
RECURSIVE SortUnstableByFrom(_, _, _, _)
SortUnstableByFrom(s, i, ts, c) ==
    IF i > Len(s) THEN ts
    ELSE SortUnstableByFrom(s, i + 1,
             UNION { { InsertAt(t, p, s[i]) : p \in SortedPlaces(t, s[i], c) } : t \in ts },
             c)

SortUnstableBy(s, c) == SortUnstableByFrom(s, 1, {<<>>}, c)

\* self[start..end] with the range replaced by r.
WithRange(s, start, stop, r) ==
    SubSeq(s, 1, start) \o r \o SubSeq(s, stop + 1, Len(s))

\* self[start..end] is a checked slice: a range past the end panics.
RangesInBounds(s, bs) ==
    \A b \in 1..Len(bs) : bs[b].count > 1 => bs[b].offset + bs[b].count <= Len(s)

\* Mutant of NeedsSort: bins of two elements are left as they are.
NeedsSortOverTwo(bin) == bin.count > 2

\* The test of lines 143 and 158.
NeedsSort(bin) == bin.count > 1

\* Lines 142-148: every bin of more than one element is sorted, stably.
RECURSIVE SortEachBin(_, _, _, _)
SortEachBin(s, bs, b, c) ==
    IF b > Len(bs) THEN s
    ELSE LET bin == bs[b]
         IN SortEachBin(
                IF NeedsSort(bin)
                THEN WithRange(s, bin.offset, bin.offset + bin.count,
                               SortBy(SubSeq(s, bin.offset + 1, bin.offset + bin.count), c))
                ELSE s,
                bs, b + 1, c)

\* Lines 157-163: the same loop with the unstable sort; the set of results.
RECURSIVE SortUnstableEachBin(_, _, _, _)
SortUnstableEachBin(ss, bs, b, c) ==
    IF b > Len(bs) THEN ss
    ELSE LET bin == bs[b]
         IN SortUnstableEachBin(
                IF NeedsSort(bin)
                THEN UNION { { WithRange(s, bin.offset, bin.offset + bin.count, r) :
                                 r \in SortUnstableBy(
                                          SubSeq(s, bin.offset + 1, bin.offset + bin.count), c) }
                             : s \in ss }
                ELSE ss,
                bs, b + 1, c)

--------------------------------------------------------------------------
(* The callers of sort_by_bins.  sort_by_bins does not depend on who called *)
(* it, so the caller is settled when it returns.                           *)

\* sort_with_bins, lines 140-148.
SortWithBins ==
    /\ pc = "returned"
    /\ \E c \in Comparators :
        /\ compare' = c
        /\ caller' = "sort_with_bins"
        /\ IF RangesInBounds(self, bins)
           THEN /\ self' = SortEachBin(self, bins, 1, c)
                /\ pc' = "sorted"
           ELSE /\ pc' = "panic"
                /\ UNCHANGED self
    /\ UNCHANGED <<input, layout, bins, offset, bin_index, locals>>

\* sort_unstable_with_bins, lines 155-163.
SortUnstableWithBins ==
    /\ pc = "returned"
    /\ \E c \in Comparators :
        /\ compare' = c
        /\ caller' = "sort_unstable_with_bins"
        /\ IF RangesInBounds(self, bins)
           THEN /\ self' \in SortUnstableEachBin({self}, bins, 1, c)
                /\ pc' = "sorted"
           ELSE /\ pc' = "panic"
                /\ UNCHANGED self
    /\ UNCHANGED <<input, layout, bins, offset, bin_index, locals>>

\* tests::test_0, lines 243-252: sort_by_bins, then each bin sorted by the
\* caller itself with Point::cmp.
SortBinsByCaller ==
    /\ pc = "returned"
    /\ compare' = "cmp"
    /\ caller' = "test_0"
    /\ IF RangesInBounds(self, bins)
       THEN /\ self' \in SortUnstableEachBin({self}, bins, 1, "cmp")
            /\ pc' = "sorted"
       ELSE /\ pc' = "panic"
            /\ UNCHANGED self
    /\ UNCHANGED <<input, layout, bins, offset, bin_index, locals>>

SortByBinsStep ==
    \/ ReturnEmpty
    \/ ReturnSingleBin
    \/ BuildLayout
    \/ CountPass
    \/ PrefixDone
    \/ PrefixSkipEmpty
    \/ PrefixLocalPass
    \/ OuterExit
    \/ OuterSkip
    \/ OuterEnter
    \/ InnerLoad
    \/ InnerDone
    \/ ChaseSwap
    \/ ChaseStore

Next ==
    \/ SortByBinsStep
    \/ SortWithBins
    \/ SortUnstableWithBins
    \/ SortBinsByCaller

Spec == Init /\ [][Next]_vars

\* One call of sort_by_bins on its own.  The call is single-threaded and runs
\* to completion: whenever a step of it is possible, a step is taken.
SortByBinsSpec == Init /\ [][SortByBinsStep]_vars /\ WF_vars(SortByBinsStep)

--------------------------------------------------------------------------
(* Vocabulary of the properties. *)

\* The multiset of the elements of a sequence.
BagOfSeq(s) ==
    [e \in {s[i] : i \in 1..Len(s)} |-> Cardinality({i \in 1..Len(s) : s[i] = e})]

\* The input is one on which sort_by_bins builds a layout.
NotSkipped == input # <<>> /\ ~SkipsBinning(input)

\* The number of input elements whose bin is b.
InputCount(b) == Cardinality({i \in 1..Len(input) : BinOf(input[i], layout) = b})

\* The sum of the counts of the bins below b (b is the code's 0-based index).
RECURSIVE CountsBelow(_, _)
CountsBelow(bs, b) == IF b = 0 THEN 0 ELSE CountsBelow(bs, b - 1) + At(bs, b - 1).count

\* The chase has moved at least one element between bins of a three-bin table.
ChasedAcrossThreeBins ==
    /\ Len(bins) >= 3
    /\ \A b \in 1..Len(bins) : bins[b].count > 0
    /\ self # input
    /\ bins[Len(bins)].index > 0

--------------------------------------------------------------------------
(* C1.  Permutation soundness: when sort_by_bins returns, the multiset of   *)
(* the elements of the vector equals the multiset of the input; between     *)
(* two chases the vector is a permutation of the input, and during a chase  *)
(* the vector with the carried value put back in the slot it was cloned     *)
(* from is one: nothing is lost or duplicated.                              *)
C1_PermutationSound ==
    /\ pc \in {"count", "prefix", "outer", "inner", "returned"}
          => BagOfSeq(self) = BagOfSeq(input)
    /\ pc = "chase"
          => /\ iter_index < Len(self)
             /\ BagOfSeq(Put(self, iter_index, this_value)) = BagOfSeq(input)

C1_Witness == pc = "returned" /\ ChasedAcrossThreeBins

(* C2.  Partition correctness: when sort_by_bins returns on an input that   *)
(* was not skipped, every element in the region of bin b has bin b, and the *)
(* count of bin b is the number of input elements whose bin is b.           *)
C2_PartitionCorrect ==
    (pc = "returned" /\ NotSkipped) =>
        \A b \in 0..(Len(bins) - 1) :
            /\ At(bins, b).count = InputCount(b)
            /\ At(bins, b).offset + At(bins, b).count <= Len(self)
            /\ \A i \in At(bins, b).offset..(At(bins, b).offset + At(bins, b).count - 1) :
                   BinOf(At(self, i), layout) = b

C2_Witness ==
    /\ pc = "returned"
    /\ NotSkipped
    /\ ChasedAcrossThreeBins
    /\ bins[1].count >= 2
    /\ bins[Len(bins)].count >= 2

(* C3.  Full-sort equivalence: with the total-order comparator (key, then   *)
(* payload), sort_with_bins, and sort_by_bins followed by a sort of each    *)
(* returned bin, leave the vector equal to a standard comparison sort of    *)
(* the whole input.                                                         *)
C3_FullSortEquivalence ==
    (pc = "sorted" /\ compare = "cmp") => self = SortBy(input, "cmp")

C3_Witness ==
    /\ pc = "sorted"
    /\ compare = "cmp"
    /\ caller = "sort_with_bins"
    /\ ChasedAcrossThreeBins
    /\ \E b \in 1..Len(bins) : bins[b].count > 1

(* C4.  Stability within a bin: after sort_with_bins, two elements that     *)
(* compare equal under the comparator (so they share a bin) stand in the    *)
(* order in which they stood in the input (the payload is the input         *)
(* position).                                                               *)
C4_StableWithinBin ==
    (pc = "sorted" /\ caller = "sort_with_bins") =>
        \A i, j \in 1..Len(self) :
            (i < j /\ Compare(compare, self[i], self[j]) = 0) => self[i].y < self[j].y

(* C5.  Degenerate key range: on a non-empty input whose target bin count   *)
(* min(max_key - min_key, n / 2, 8192) is at most 1, sort_by_bins returns   *)
(* exactly one bin with offset 0 and count n and leaves the vector as it    *)
(* was.                                                                     *)
C5_DegenerateRange ==
    (pc = "returned" /\ input # <<>>
        /\ Min2(Min2(delta_of(input), Len(input) \div 2), 8192) <= 1) =>
            /\ Len(bins) = 1
            /\ bins[1].offset = 0
            /\ bins[1].count = Len(input)
            /\ self = input

C5_Witness ==
    /\ pc = "returned"
    /\ Len(input) = MaxLen
    /\ delta_of(input) = 1
    /\ Len(bins) = 1

(* C6.  Small-input passthrough: on an input of at most 16 elements,        *)
(* sort_with_bins and sort_unstable_with_bins bypass binning (no layout is   *)
(* derived, so no table is built from one and nothing is distributed), and  *)
(* sort_with_bins leaves the vector equal to the stable comparator sort of  *)
(* the whole input.                                                         *)
C6_SmallInputPassthrough ==
    (pc = "sorted" /\ caller \in {"sort_with_bins", "sort_unstable_with_bins"}
        /\ Len(input) <= 16) =>
            /\ layout = NoLayout
            /\ caller = "sort_with_bins" => self = SortBy(input, compare)

(* C7.  Bounds safety: no checked index panics and no unchecked index is    *)
(* out of bounds; every bin index that addresses the table is below its     *)
(* length, every slot fetched from a destination bin's cursor during the    *)
(* chase lies in that bin's own region and so in [0, n), and iter_index is  *)
(* below n whenever it is dereferenced.                                     *)
C7_BoundsSafe ==
    /\ pc \notin {"ub", "panic"}
    /\ pc = "count" => \A i \in 1..Len(self) : BinOf(self[i], layout) < Len(bins)
    /\ (pc = "prefix" /\ bin_index < Len(bins)) =>
           offset + At(bins, bin_index).count <= Len(self)
    /\ (pc = "inner" /\ iter_index < end) => iter_index < Len(self)
    /\ pc = "chase" => (bin_index < Len(bins) /\ iter_index < Len(self))
    /\ (pc = "chase" /\ next_bin_index # bin_index) =>
           /\ next_bin_index < Len(bins)
           /\ LET dest == At(bins, next_bin_index)
              IN /\ dest.offset <= dest.offset + dest.index
                 /\ dest.offset + dest.index < dest.offset + dest.count
                 /\ dest.offset + dest.index < Len(self)

C7_Witness ==
    /\ pc = "chase"
    /\ bin_index >= 1
    /\ next_bin_index # bin_index
    /\ At(bins, next_bin_index).index > 0

(* C8.  Termination of the distributor: every call of sort_by_bins         *)
(* returns; on the way a chase never targets a bin below the current one    *)
(* (those are resolved) nor a full bin, and never leaves the table.         *)
C8_ChaseTargetsOpenBin ==
    (pc = "chase" /\ next_bin_index # bin_index) =>
        /\ bin_index < next_bin_index
        /\ next_bin_index < Len(bins)
        /\ At(bins, next_bin_index).index < At(bins, next_bin_index).count

C8_Terminates == [](C8_ChaseTargetsOpenBin) /\ <>(pc = "returned")

C8_Witness ==
    /\ pc = "chase"
    /\ next_bin_index # bin_index
    /\ LET dest == At(bins, next_bin_index)
       IN BinOf(At(self, dest.offset + dest.index), layout)
              \notin {bin_index, next_bin_index}

(* C9.  Bin cursor invariant: from the end of the prefix-sum pass on, and   *)
(* in the returned table, every bin's cursor satisfies 0 <= index <= count. *)
C9_CursorWithinCount ==
    pc \in {"outer", "inner", "chase", "returned", "sorted"} =>
        \A b \in 1..Len(bins) : 0 <= bins[b].index /\ bins[b].index <= bins[b].count

(* C10.  Prefix-sum offsets: in the table returned on a non-skipped input,  *)
(* the offset of every bin, the empty ones included, is the sum of the      *)
(* counts of the bins below it.                                             *)
C10_PrefixSumOffsets ==
    (pc = "returned" /\ NotSkipped) =>
        \A b \in 0..(Len(bins) - 1) : At(bins, b).offset = CountsBelow(bins, b)

==========================================================================
